---------------------------- MODULE Spec2Model ----------------------------
(***************************************************************************)
(* A model of PythonScripts/summarize.py: the command-line summarizer that *)
(* tries an accelerated (MLX) adapter, a general (Transformers) adapter    *)
(* and a fixed fallback (BART) adapter in that order.                      *)
(*                                                                         *)
(* Python strings are modelled as sequences of one-character strings, so   *)
(* that lower(), `in`, split(), replace(), strip() and startswith() are    *)
(* computed character by character as CPython computes them.  The external *)
(* libraries (mlx_lm, transformers, torch) are black boxes: every call     *)
(* into them either raises or returns a string drawn from a bounded set.   *)
(* The --verbose flag only adds diagnostic lines on the error stream and   *)
(* is not modelled; max_tokens, temperature and top_p are only forwarded   *)
(* to the external calls.                                                  *)
(***************************************************************************)
EXTENDS Integers, Sequences, FiniteSets, TLC

VARIABLES
  pc,         \* position of main(): "start", "stage1", "stage2", "stage3",
              \* "final", then "done" | "failed" | "input_error" | "crashed";
              \* "prompt_call"/"prompt_ret" and "mlx_call"/"mlx_ret" are the
              \* positions of the two functions checked on their own
  use_mlx,    \* args.use_mlx
  model,      \* args.model
  processor,  \* platform.processor()
  machine,    \* platform.machine()
  installed,  \* the optional libraries that can be imported on this host
  readable,   \* whether open(args.file).read() succeeds
  content,    \* the content of args.file
  deps,       \* the result of check_dependencies()
  text,       \* the stripped input text
  summary,    \* main's local `summary`: None or a string
  prompt,     \* the prompt built by the last adapter that built one
  response,   \* the text the last external generation call returned
  calls,      \* the adapter invocations so far, in order, with what each returned
  out,        \* what was printed to standard output
  err,        \* the error messages printed to the error stream
  exitCode    \* the process exit code, -1 while running

vars ==
  <<pc, use_mlx, model, processor, machine, installed, readable, content, deps,
    text, summary, prompt, response, calls, out, err, exitCode>>

(***************************************************************************)
(* Bounds of the model.                                                    *)
(***************************************************************************)
\* longest file content, in characters
MaxTextLen == 2

\* most name fragments a model identifier is concatenated from
MaxIdParts == 2

\* most fragments a generated response is concatenated from
MaxRespParts == 2

(***************************************************************************)
(* String literals of the source.                                          *)
(***************************************************************************)
KW_mlx_community ==
  <<"m","l","x","-","c","o","m","m","u","n","i","t","y">>

KW_smollm ==
  <<"s","m","o","l","l","m">>

KW_gemma ==
  <<"g","e","m","m","a">>

KW_llama ==
  <<"l","l","a","m","a">>

KW_phi ==
  <<"p","h","i">>

KW_bart ==
  <<"b","a","r","t">>

KW_t5 ==
  <<"t","5">>

KW_pegasus ==
  <<"p","e","g","a","s","u","s">>

END_OF_TURN ==
  <<"<","e","n","d","_","o","f","_","t","u","r","n",">">>

EOT_ID ==
  <<"<","|","e","o","t","_","i","d","|",">">>

SUMMARY_MARK ==
  <<"S","u","m","m","a","r","y",":">>

ERROR_PREFIX ==
  <<"E","r","r","o","r",":">>

FALLBACK_ERROR ==
  <<"E","r","r","o","r",":"," ","C","o","u","l","d"," ","n","o","t"," ","s","u","m","m","a",
    "r","i","z","e"," ","t","e","x","t","."," ","A","l","l"," ","m","e","t","h","o","d","s",
    " ","f","a","i","l","e","d",".">>

SMOLLM_HEAD ==
  <<"S","u","m","m","a","r","i","z","e"," ","t","h","e"," ","f","o","l","l","o","w","i","n",
    "g"," ","t","e","x","t"," ","c","o","n","c","i","s","e","l","y",":","\n","\n">>

SMOLLM_TAIL ==
  <<"\n","\n","S","u","m","m","a","r","y",":">>

GEMMA_HEAD ==
  <<"<","s","t","a","r","t","_","o","f","_","t","u","r","n",">","u","s","e","r","\n","P",
    "l","e","a","s","e"," ","p","r","o","v","i","d","e"," ","a"," ","c","o","n","c","i","s",
    "e"," ","s","u","m","m","a","r","y"," ","o","f"," ","t","h","e"," ","f","o","l","l","o",
    "w","i","n","g"," ","t","e","x","t",":","\n">>

GEMMA_TAIL ==
  <<"\n","<","e","n","d","_","o","f","_","t","u","r","n",">","\n","<","s","t","a","r","t",
    "_","o","f","_","t","u","r","n",">","m","o","d","e","l","\n">>

LLAMA_HEAD ==
  <<"<","|","b","e","g","i","n","_","o","f","_","t","e","x","t","|",">","<","|","s","t","a",
    "r","t","_","h","e","a","d","e","r","_","i","d","|",">","u","s","e","r","<","|","e","n",
    "d","_","h","e","a","d","e","r","_","i","d","|",">","\n","\n","P","l","e","a","s","e",
    " ","s","u","m","m","a","r","i","z","e"," ","t","h","e"," ","f","o","l","l","o","w","i",
    "n","g"," ","t","e","x","t",":","\n">>

LLAMA_TAIL ==
  <<"<","|","e","o","t","_","i","d","|",">","<","|","s","t","a","r","t","_","h","e","a","d",
    "e","r","_","i","d","|",">","a","s","s","i","s","t","a","n","t","<","|","e","n","d","_",
    "h","e","a","d","e","r","_","i","d","|",">","\n","\n">>

PHI_HEAD ==
  <<"<","|","u","s","e","r","|",">","\n","S","u","m","m","a","r","i","z","e"," ","t","h",
    "i","s"," ","t","e","x","t",":","\n">>

PHI_TAIL ==
  <<"\n","<","|","a","s","s","i","s","t","a","n","t","|",">","\n">>

GENERIC_HEAD ==
  <<"S","u","m","m","a","r","i","z","e"," ","t","h","e"," ","f","o","l","l","o","w","i","n",
    "g"," ","t","e","x","t",":","\n","\n">>

GENERIC_TAIL ==
  <<"\n","\n","S","u","m","m","a","r","y",":">>

(***************************************************************************)
(* Inputs: model identifiers, name fragments and response fragments.       *)
(***************************************************************************)
ID_mlx_gemma ==
  <<"m","l","x","-","c","o","m","m","u","n","i","t","y","/","g","e","m","m","a","-","3","-",
    "1","b","-","i","t","-","8","b","i","t">>

ID_MLX_Llama ==
  <<"M","L","X","-","C","o","m","m","u","n","i","t","y","/","L","l","a","m","a","-","3">>

ID_mlx_smol_gemma ==
  <<"m","l","x","-","c","o","m","m","u","n","i","t","y","/","S","m","o","l","L","M","-","g",
    "e","m","m","a">>

ID_mlx_phi ==
  <<"m","l","x","-","c","o","m","m","u","n","i","t","y","/","P","h","i","-","3">>

ID_mlx_qwen ==
  <<"m","l","x","-","c","o","m","m","u","n","i","t","y","/","Q","w","e","n","2">>

ID_gpt2 ==
  <<"g","p","t","2">>

ID_bart ==
  <<"f","a","c","e","b","o","o","k","/","b","a","r","t","-","l","a","r","g","e","-","c","n",
    "n">>

ID_smollm ==
  <<"H","u","g","g","i","n","g","F","a","c","e","T","B","/","S","m","o","l","L","M","-","1",
    "3","5","M">>

TOK_mlx ==
  <<"m","l","x","-","c","o","m","m","u","n","i","t","y","/">>

TOK_Gemma ==
  <<"G","e","m","m","a">>

TOK_SmolLM ==
  <<"S","m","o","l","L","M">>

TOK_x ==
  <<"x","-","1","b">>

R_ok ==
  <<"o","k">>

R_sp ==
  <<" ">>

R_error ==
  <<"E","r","r","o","r",":"," ","x">>

(***************************************************************************)
(* Python's str operations, on sequences of characters.                    *)
(***************************************************************************)
UPPER ==
  <<"A","B","C","D","E","F","G","H","I","J","K","L","M","N","O","P","Q","R","S","T","U",
    "V","W","X","Y","Z">>

LOWER ==
  <<"a","b","c","d","e","f","g","h","i","j","k","l","m","n","o","p","q","r","s","t","u",
    "v","w","x","y","z">>

\* the characters str.strip() removes
WHITESPACE == {" ", "\t", "\n", "\r", "\f"}

Min(S) == CHOOSE m \in S : \A n \in S : m <= n

Max(S) == CHOOSE m \in S : \A n \in S : m >= n

LowerChar(c) ==
  IF \E i \in 1..Len(UPPER) : UPPER[i] = c
  THEN LOWER[CHOOSE i \in 1..Len(UPPER) : UPPER[i] = c]
  ELSE c

\* s.lower()
Lower(s) == [i \in 1..Len(s) |-> LowerChar(s[i])]

\* s[i-1:].startswith(sub), i counted from 1
MatchAt(s, sub, i) ==
  /\ i >= 1
  /\ i + Len(sub) - 1 <= Len(s)
  /\ \A k \in 1..Len(sub) : s[i + k - 1] = sub[k]

\* sub in s
Contains(s, sub) == \E i \in 1..(Len(s) - Len(sub) + 1) : MatchAt(s, sub, i)

\* s.find(sub, from-1) + 1: the first position at or after `from`, 0 when none
FindFrom(s, sub, from) ==
  LET hits == {i \in from..(Len(s) - Len(sub) + 1) : MatchAt(s, sub, i)}
  IN  IF hits = {} THEN 0 ELSE Min(hits)

\* s.startswith(p)
StartsWith(s, p) == MatchAt(s, p, 1)

\* s.endswith(p)
EndsWith(s, p) == Len(p) <= Len(s) /\ MatchAt(s, p, Len(s) - Len(p) + 1)

\* s.strip()
Strip(s) ==
  LET keep == {i \in 1..Len(s) : s[i] \notin WHITESPACE}
  IN  IF keep = {} THEN <<>> ELSE SubSeq(s, Min(keep), Max(keep))

\* s.split(sep), sep not empty: the list of the parts between the occurrences
RECURSIVE Split(_, _)
Split(s, sep) ==
  LET i == FindFrom(s, sep, 1)
  IN  IF i = 0
      THEN <<s>>
      ELSE <<SubSeq(s, 1, i - 1)>> \o Split(SubSeq(s, i + Len(sep), Len(s)), sep)

\* s.replace("", new)
RECURSIVE Interleave(_, _)
Interleave(s, new) ==
  IF s = <<>> THEN new ELSE new \o <<Head(s)>> \o Interleave(Tail(s), new)

\* s.replace(old, new): every non-overlapping occurrence, leftmost first
RECURSIVE Replace(_, _, _)
Replace(s, old, new) ==
  IF old = <<>>
  THEN Interleave(s, new)
  ELSE LET i == FindFrom(s, old, 1)
       IN  IF i = 0
           THEN s
           ELSE SubSeq(s, 1, i - 1) \o new
                  \o Replace(SubSeq(s, i + Len(old), Len(s)), old, new)

\* Optional[str]: None, or a string
None == <<>>

Str(s) == <<s>>

\* Python's `not v` for an Optional[str]
Falsy(v) == IF v = None THEN TRUE ELSE v[1] = <<>>

(***************************************************************************)
(* The pure functions of the script.                                       *)
(***************************************************************************)
\* is_apple_silicon()
is_apple_silicon == processor = "arm" \/ machine = "arm64"

\* is_mlx_model(model_name)
is_mlx_model(model_name) == Contains(Lower(model_name), KW_mlx_community)

\* check_dependencies(): each optional library is available iff its import works
check_dependencies ==
  [transformers |-> "transformers" \in installed,
   torch        |-> "torch" \in installed,
   mlx          |-> "mlx" \in installed,
   mlx_lm       |-> "mlx_lm" \in installed]

\* mutant: the family names are matched without .lower()
create_prompt_case_sensitive(txt, model_name) ==
  IF Contains(model_name, KW_smollm)
  THEN SMOLLM_HEAD \o txt \o SMOLLM_TAIL
  ELSE IF Contains(model_name, KW_gemma)
  THEN GEMMA_HEAD \o txt \o GEMMA_TAIL
  ELSE IF Contains(model_name, KW_llama)
  THEN LLAMA_HEAD \o txt \o LLAMA_TAIL
  ELSE IF Contains(model_name, KW_phi)
  THEN PHI_HEAD \o txt \o PHI_TAIL
  ELSE GENERIC_HEAD \o txt \o GENERIC_TAIL

\* create_prompt_for_model(text, model_name)
create_prompt_for_model(txt, model_name) ==
  IF Contains(Lower(model_name), KW_smollm)
  THEN SMOLLM_HEAD \o txt \o SMOLLM_TAIL
  ELSE IF Contains(Lower(model_name), KW_gemma)
  THEN GEMMA_HEAD \o txt \o GEMMA_TAIL
  ELSE IF Contains(Lower(model_name), KW_llama)
  THEN LLAMA_HEAD \o txt \o LLAMA_TAIL
  ELSE IF Contains(Lower(model_name), KW_phi)
  THEN PHI_HEAD \o txt \o PHI_TAIL
  ELSE GENERIC_HEAD \o txt \o GENERIC_TAIL

\* mutant: the part after the end marker is taken instead of the part before it
extract_mlx_after_marker(resp, prmpt, model_name) ==
  IF Contains(Lower(model_name), KW_gemma)
  THEN IF Contains(resp, END_OF_TURN)
       THEN Strip(Split(resp, END_OF_TURN)[2])
       ELSE Strip(Replace(resp, prmpt, <<>>))
  ELSE IF Contains(Lower(model_name), KW_llama)
  THEN IF Contains(resp, EOT_ID)
       THEN Strip(Split(resp, EOT_ID)[2])
       ELSE Strip(Replace(resp, prmpt, <<>>))
  ELSE IF Contains(resp, SUMMARY_MARK)
  THEN Strip(Split(resp, SUMMARY_MARK)[2])
  ELSE Strip(Replace(resp, prmpt, <<>>))

\* summarize_with_mlx, "Extract summary from response"
extract_mlx(resp, prmpt, model_name) ==
  IF Contains(Lower(model_name), KW_gemma)
  THEN IF Contains(resp, END_OF_TURN)
       THEN Strip(Split(resp, END_OF_TURN)[1])
       ELSE Strip(Replace(resp, prmpt, <<>>))
  ELSE IF Contains(Lower(model_name), KW_llama)
  THEN IF Contains(resp, EOT_ID)
       THEN Strip(Split(resp, EOT_ID)[1])
       ELSE Strip(Replace(resp, prmpt, <<>>))
  ELSE IF Contains(resp, SUMMARY_MARK)
  THEN Strip(Split(resp, SUMMARY_MARK)[2])
  ELSE Strip(Replace(resp, prmpt, <<>>))

\* summarize_with_transformers, "Extract summary"
extract_transformers(generated_text, prmpt) ==
  IF Contains(generated_text, SUMMARY_MARK)
  THEN Strip(Split(generated_text, SUMMARY_MARK)[2])
  ELSE Strip(Replace(generated_text, prmpt, <<>>))

(***************************************************************************)
(* The adapters.  `outcome` is what the external library does in the call: *)
(* raises = TRUE when an import, a load or the generation raises, else     *)
(* response is the generated text.  An adapter's result is                 *)
(* [propagated, value]: propagated = TRUE when an exception leaves the     *)
(* adapter, else value is what it returns.                                 *)
(***************************************************************************)
Returned(v) == [propagated |-> FALSE, value |-> v]

Propagated == [propagated |-> TRUE, value |-> None]

\* mutant: summarize_with_mlx without its try/except
summarize_with_mlx_uncaught(txt, model_name, outcome) ==
  IF outcome.raises
  THEN Propagated
  ELSE Returned(Str(extract_mlx(outcome.response,
                                create_prompt_for_model(txt, model_name), model_name)))

\* summarize_with_mlx(text, model_name, ...): try ... except Exception: return None
summarize_with_mlx(txt, model_name, outcome) ==
  IF outcome.raises
  THEN Returned(None)
  ELSE Returned(Str(extract_mlx(outcome.response,
                                create_prompt_for_model(txt, model_name), model_name)))

\* whether the model is served by pipeline("summarization")
is_seq2seq(model_name) ==
  \E name \in {KW_bart, KW_t5, KW_pegasus} : Contains(Lower(model_name), name)

\* summarize_with_transformers(text, model_name, ...)
summarize_with_transformers(txt, model_name, outcome) ==
  IF outcome.raises
  THEN Returned(None)
  ELSE IF is_seq2seq(model_name)
  THEN Returned(Str(outcome.response))
  ELSE Returned(Str(extract_transformers(outcome.response,
                                         create_prompt_for_model(txt, model_name))))

\* fallback_summarization(text, max_tokens)
fallback_summarization(txt, outcome) ==
  IF outcome.raises
  THEN Returned(Str(FALLBACK_ERROR))
  ELSE Returned(Str(outcome.response))

(***************************************************************************)
(* The inputs the model draws from.                                        *)
(***************************************************************************)
\* every concatenation of at most n members of parts
RECURSIVE Concats(_, _)
Concats(parts, n) ==
  IF n = 0
  THEN {<<>>}
  ELSE LET shorter == Concats(parts, n - 1)
       IN  shorter \cup {s \o p : s \in shorter, p \in parts}

TextChars == {" ", "\n", "a"}

\* the file contents: every string of at most MaxTextLen characters
Contents == UNION {[1..k -> TextChars] : k \in 0..MaxTextLen}

\* the texts main passes to the adapters
Texts == {Strip(c) : c \in Contents} \ {<<>>}

Libs == {"transformers", "torch", "mlx", "mlx_lm"}

\* the model identifiers main is run with
DispatchIds == {ID_mlx_gemma, ID_MLX_Llama, ID_gpt2, ID_bart, ID_smollm}

\* the accelerated-namespace identifiers summarize_with_mlx is run with
MlxIds == {ID_mlx_gemma, ID_MLX_Llama, ID_mlx_smol_gemma, ID_mlx_phi, ID_mlx_qwen}

\* the identifiers create_prompt_for_model is run with
IdTokens == {TOK_mlx, TOK_Gemma, TOK_SmolLM, TOK_x, KW_gemma, KW_smollm, KW_llama, KW_phi}

PromptIds == Concats(IdTokens, MaxIdParts)

\* the texts a generation call may return for a prompt
RespParts(prmpt) == {R_ok, R_sp, R_error, SUMMARY_MARK, END_OF_TURN, EOT_ID, prmpt}

Outcomes(responses) ==
  {[raises |-> TRUE, response |-> <<>>]}
    \cup {[raises |-> FALSE, response |-> r] : r \in responses}

\* the summary_text values the fallback pipeline may produce
FallbackTexts == {<<>>, R_ok, R_error}

Adapters == {"mlx", "general", "fallback"}

Call(adapter, outcome, result) ==
  [adapter |-> adapter, raised |-> outcome.raises, response |-> outcome.response,
   ret |-> result.value]

(***************************************************************************)
(* main()                                                                  *)
(***************************************************************************)
\* the messages main prints to the error stream (lines 300, 304, 331, 333)
MSG_READ == "Error reading file"

MSG_EMPTY == "Error: Input text is empty"

MSG_MLX_HINT == "Error: MLX-community models require MLX framework on Apple Silicon."

MSG_ALL_FAILED == "Error: All summarization methods failed. Check dependencies."

NoDeps == [transformers |-> FALSE, torch |-> FALSE, mlx |-> FALSE, mlx_lm |-> FALSE]

\* mutant: the text is read without .strip()
read_text_unstripped(c) == c

\* line 295: f.read().strip()
read_text(c) == Strip(c)

TypeOK ==
  /\ pc \in {"start", "stage1", "stage2", "stage3", "final", "done", "failed",
             "input_error", "crashed", "prompt_call", "prompt_ret", "mlx_call",
             "mlx_ret"}
  /\ use_mlx \in BOOLEAN
  /\ readable \in BOOLEAN
  /\ installed \subseteq Libs
  /\ exitCode \in {-1, 0, 1}
  /\ \A i \in 1..Len(calls) : calls[i].adapter \in Adapters

Init ==
  /\ pc = "start"
  /\ use_mlx \in BOOLEAN
  /\ model \in DispatchIds
  /\ processor \in {"arm", "i386"}
  /\ machine \in {"arm64", "x86_64"}
  /\ installed \in {S \in SUBSET Libs : "mlx_lm" \in S => "mlx" \in S}
  /\ readable \in BOOLEAN
  /\ content \in (IF readable THEN Contents ELSE {<<>>})
  /\ deps = NoDeps
  /\ text = <<>>
  /\ summary = None
  /\ prompt = <<>>
  /\ response = <<>>
  /\ calls = <<>>
  /\ out = <<>>
  /\ err = <<>>
  /\ exitCode = -1

Env == <<use_mlx, model, processor, machine, installed, readable, content>>

\* lines 290-301: the dependencies are probed, then open()/read() raises
ReadFails ==
  /\ pc = "start"
  /\ ~readable
  /\ deps' = check_dependencies
  /\ err' = Append(err, MSG_READ)
  /\ exitCode' = 1
  /\ pc' = "input_error"
  /\ UNCHANGED <<Env, text, summary, prompt, response, calls, out>>

\* lines 290-305: the file is read and its stripped text is empty
ReadEmpty ==
  /\ pc = "start"
  /\ readable
  /\ read_text(content) = <<>>
  /\ deps' = check_dependencies
  /\ text' = read_text(content)
  /\ err' = Append(err, MSG_EMPTY)
  /\ exitCode' = 1
  /\ pc' = "input_error"
  /\ UNCHANGED <<Env, summary, prompt, response, calls, out>>

\* lines 290-308: the file is read and holds text
ReadOk ==
  /\ pc = "start"
  /\ readable
  /\ read_text(content) # <<>>
  /\ deps' = check_dependencies
  /\ text' = read_text(content)
  /\ summary' = None
  /\ pc' = "stage1"
  /\ UNCHANGED <<Env, prompt, response, calls, out, err, exitCode>>

\* mutant: the accelerated stage does not ask for --use-mlx
Stage1Guard_NoFlag == is_mlx_model(model) /\ is_apple_silicon /\ deps.mlx_lm

\* line 311
Stage1Guard == use_mlx /\ is_mlx_model(model) /\ is_apple_silicon /\ deps.mlx_lm

\* mutant: the general stage also takes accelerated-namespace models
Stage2Guard_AnyModel == Falsy(summary) /\ deps.transformers

\* line 317
Stage2Guard == Falsy(summary) /\ deps.transformers /\ ~is_mlx_model(model)

\* mutant: the fallback stage leaves accelerated-namespace models out
Stage3Guard_NotMlx == Falsy(summary) /\ deps.transformers /\ ~is_mlx_model(model)

\* line 323
Stage3Guard == Falsy(summary) /\ deps.transformers

\* mutant: the final check does not look for the "Error:" prefix
FinalFails_NoErrorCheck == Falsy(summary)

\* mutant: the final check tests `summary is None` instead of `not summary`
FinalFails_OnlyNone == IF summary = None THEN TRUE ELSE StartsWith(summary[1], ERROR_PREFIX)

\* line 329
FinalFails == IF Falsy(summary) THEN TRUE ELSE StartsWith(summary[1], ERROR_PREFIX)

\* an adapter call of main: the result is assigned to summary, or the exception
\* that left the adapter ends main with a traceback
Invoke(adapter, outcome, result, next) ==
  /\ calls' = Append(calls, Call(adapter, outcome, result))
  /\ response' = outcome.response
  /\ IF result.propagated
     THEN /\ pc' = "crashed"
          /\ exitCode' = 1
          /\ UNCHANGED summary
     ELSE /\ pc' = next
          /\ summary' = result.value
          /\ UNCHANGED exitCode

\* lines 311-314
TryAccelerated ==
  /\ pc = "stage1"
  /\ Stage1Guard
  /\ LET p == create_prompt_for_model(text, model)
     IN  /\ \E o \in Outcomes(Concats(RespParts(p), 1)) :
              /\ "mlx_lm" \notin installed => o.raises
              /\ Invoke("mlx", o, summarize_with_mlx(text, model, o), "stage2")
         /\ prompt' = p
  /\ UNCHANGED <<Env, deps, text, out, err>>

SkipAccelerated ==
  /\ pc = "stage1"
  /\ ~Stage1Guard
  /\ pc' = "stage2"
  /\ UNCHANGED <<Env, deps, text, summary, prompt, response, calls, out, err, exitCode>>

\* lines 317-320
TryGeneral ==
  /\ pc = "stage2"
  /\ Stage2Guard
  /\ LET p == create_prompt_for_model(text, model)
     IN  /\ \E o \in Outcomes(Concats(RespParts(p), 1)) :
              /\ ("transformers" \notin installed \/ "torch" \notin installed) => o.raises
              /\ Invoke("general", o, summarize_with_transformers(text, model, o), "stage3")
         /\ prompt' = IF is_seq2seq(model) THEN prompt ELSE p
  /\ UNCHANGED <<Env, deps, text, out, err>>

SkipGeneral ==
  /\ pc = "stage2"
  /\ ~Stage2Guard
  /\ pc' = "stage3"
  /\ UNCHANGED <<Env, deps, text, summary, prompt, response, calls, out, err, exitCode>>

\* lines 323-326
TryFallback ==
  /\ pc = "stage3"
  /\ Stage3Guard
  /\ \E o \in Outcomes(FallbackTexts) :
       /\ "transformers" \notin installed => o.raises
       /\ Invoke("fallback", o, fallback_summarization(text, o), "final")
  /\ UNCHANGED <<Env, deps, text, prompt, out, err>>

SkipFallback ==
  /\ pc = "stage3"
  /\ ~Stage3Guard
  /\ pc' = "final"
  /\ UNCHANGED <<Env, deps, text, summary, prompt, response, calls, out, err, exitCode>>

\* lines 329-334
Fail ==
  /\ pc = "final"
  /\ FinalFails
  /\ err' = Append(err, IF is_mlx_model(model) THEN MSG_MLX_HINT ELSE MSG_ALL_FAILED)
  /\ exitCode' = 1
  /\ pc' = "failed"
  /\ UNCHANGED <<Env, deps, text, summary, prompt, response, calls, out>>

\* lines 336-344
PrintSummary ==
  /\ pc = "final"
  /\ ~FinalFails
  /\ out' = Append(out, summary[1])
  /\ exitCode' = 0
  /\ pc' = "done"
  /\ UNCHANGED <<Env, deps, text, summary, prompt, response, calls, err>>

Next ==
  \/ ReadFails
  \/ ReadEmpty
  \/ ReadOk
  \/ TryAccelerated
  \/ SkipAccelerated
  \/ TryGeneral
  \/ SkipGeneral
  \/ TryFallback
  \/ SkipFallback
  \/ Fail
  \/ PrintSummary

Spec == Init /\ [][Next]_vars

(***************************************************************************)
(* create_prompt_for_model on its own: the identifier and the text are     *)
(* drawn, the function is applied once.                                    *)
(***************************************************************************)
Idle ==
  /\ use_mlx = TRUE
  /\ processor = "arm"
  /\ machine = "arm64"
  /\ installed = Libs
  /\ readable = TRUE
  /\ content = text
  /\ deps = check_dependencies
  /\ summary = None
  /\ prompt = <<>>
  /\ response = <<>>
  /\ calls = <<>>
  /\ out = <<>>
  /\ err = <<>>
  /\ exitCode = -1

InitPrompt ==
  /\ pc = "prompt_call"
  /\ model \in PromptIds
  /\ text \in Texts
  /\ Idle

CallCreatePrompt ==
  /\ pc = "prompt_call"
  /\ prompt' = create_prompt_for_model(text, model)
  /\ pc' = "prompt_ret"
  /\ UNCHANGED <<Env, deps, text, summary, response, calls, out, err, exitCode>>

NextPrompt == CallCreatePrompt

SpecPrompt == InitPrompt /\ [][NextPrompt]_vars

(***************************************************************************)
(* summarize_with_mlx on its own, as main calls it: an identifier of the   *)
(* accelerated namespace, a stripped non-empty text, mlx_lm installed.     *)
(***************************************************************************)
InitMlx ==
  /\ pc = "mlx_call"
  /\ model \in MlxIds
  /\ text \in Texts
  /\ Idle

CallMlx ==
  /\ pc = "mlx_call"
  /\ LET p == create_prompt_for_model(text, model)
     IN  /\ \E o \in Outcomes(Concats(RespParts(p), MaxRespParts)) :
              Invoke("mlx", o, summarize_with_mlx(text, model, o), "mlx_ret")
         /\ prompt' = p
  /\ UNCHANGED <<Env, deps, text, out, err>>

NextMlx == CallMlx

SpecMlx == InitMlx /\ [][NextMlx]_vars

(***************************************************************************)
(* Properties of the dispatcher, checked under Spec.                       *)
(***************************************************************************)
\* the dispatch is over: main is at or past its final check
Dispatched == pc \in {"final", "done", "failed"}

Invoked(adapter) == \E i \in 1..Len(calls) : calls[i].adapter = adapter

\* a result that is neither absent, nor empty, nor an error string
Usable(v) == IF Falsy(v) THEN FALSE ELSE ~StartsWith(v[1], ERROR_PREFIX)

InNamespace == Contains(Lower(model), KW_mlx_community)

\* C1: summarize_with_mlx is invoked only if --use-mlx was given, the model
\* identifier contains "mlx-community" in any letter case, the host is Apple
\* silicon and mlx_lm can be imported; so never when --use-mlx is absent.
C1_MlxOnlyWhenAllFour ==
  Invoked("mlx") =>
    /\ use_mlx
    /\ InNamespace
    /\ (processor = "arm" \/ machine = "arm64")
    /\ "mlx_lm" \in installed

C1_Witness ==
  /\ pc = "stage2"
  /\ Invoked("mlx")
  /\ model = ID_MLX_Llama
  /\ processor = "i386"

\* C2: in a run that passed input validation, if transformers is available and
\* neither the accelerated nor the general stage produced a result (each was
\* skipped or returned None or ""), fallback_summarization is invoked, also for
\* a model of the accelerated namespace.
C2_FallbackAttempted ==
  ( /\ Dispatched
    /\ "transformers" \in installed
    /\ \A i \in 1..Len(calls) :
         calls[i].adapter \in {"mlx", "general"} => Falsy(calls[i].ret) )
  => Invoked("fallback")

C2_Witness ==
  /\ Dispatched
  /\ InNamespace
  /\ Len(calls) = 2
  /\ calls[1].adapter = "mlx"
  /\ calls[1].ret = Str(<<>>)
  /\ calls[2].adapter = "fallback"

C4_InputErrorExits ==
  (pc # "start" /\ (~readable \/ Strip(content) = <<>>))
  => /\ pc = "input_error"
     /\ exitCode = 1
     /\ err \in {<<MSG_READ>>, <<MSG_EMPTY>>}
     /\ out = <<>>
     /\ calls = <<>>

C4_Witness ==
  /\ pc = "input_error"
  /\ readable
  /\ Len(content) = MaxTextLen
  /\ err = <<MSG_EMPTY>>

\* C5: a run that ends in FAILED (the final result is absent, empty or begins
\* with "Error:") exits with a non-zero code, prints nothing to standard output
\* and prints the MLX hint iff the identifier is in the accelerated namespace,
\* else the generic failure message; a run that ends in DONE exits 0 and prints
\* a summary that is not empty and does not begin with "Error:".
C5_FinalOutcome ==
  /\ pc = "failed" =>
       /\ exitCode # 0
       /\ out = <<>>
       /\ ~Usable(summary)
       /\ err = IF InNamespace THEN <<MSG_MLX_HINT>> ELSE <<MSG_ALL_FAILED>>
  /\ pc = "done" =>
       /\ exitCode = 0
       /\ err = <<>>
       /\ Usable(summary)
       /\ out = <<summary[1]>>
       /\ out[1] # <<>>
       /\ ~StartsWith(out[1], ERROR_PREFIX)
  /\ (Dispatched /\ pc # "final") => (pc = "failed" <=> ~Usable(summary))

C5_Witness ==
  /\ pc = "failed"
  /\ InNamespace
  /\ summary = Str(R_error)
  /\ err = <<MSG_MLX_HINT>>

\* C8 as stated: the stages are tried in the order accelerated, general,
\* fallback; the result of an accelerated or general stage ends the dispatch
\* when it is usable, and when it is absent, empty or an error string the
\* dispatcher goes on to the next stage (the fallback, transformers being
\* available).
C8_ShortCircuitOnUsable ==
  Dispatched =>
    \A i \in 1..Len(calls) :
      calls[i].adapter \in {"mlx", "general"} =>
        /\ Usable(calls[i].ret) => i = Len(calls)
        /\ (~Usable(calls[i].ret) /\ "transformers" \in installed) =>
             \E j \in (i + 1)..Len(calls) : calls[j].adapter = "fallback"

\* C9 as stated: whenever the fallback adapter is invoked, whatever string it
\* returns, the run ends in DONE: the string is printed and the exit code is 0.
C9_AnyFallbackStringIsDone ==
  \A i \in 1..Len(calls) :
    (calls[i].adapter = "fallback" /\ pc \in {"done", "failed"}) =>
      /\ pc = "done"
      /\ out = <<calls[i].ret[1]>>
      /\ exitCode = 0

\* C9 amended: whenever the fallback adapter is invoked, the run ends in DONE
\* (the string printed, exit code 0) if the returned string is not empty and
\* does not begin with "Error:", and in FAILED (nothing printed, exit code 1)
\* otherwise.
C9_FallbackDoneIffUsable ==
  \A i \in 1..Len(calls) :
    (calls[i].adapter = "fallback" /\ pc \in {"done", "failed"}) =>
      /\ calls[i].ret # None
      /\ IF Usable(calls[i].ret)
         THEN pc = "done" /\ out = <<calls[i].ret[1]>> /\ exitCode = 0
         ELSE pc = "failed" /\ out = <<>> /\ exitCode = 1

C9_Witness ==
  /\ pc = "failed"
  /\ Len(calls) = 1
  /\ calls[1].adapter = "fallback"
  /\ ~calls[1].raised
  /\ calls[1].ret = Str(<<>>)

Rank(adapter) == CASE adapter = "mlx" -> 1 [] adapter = "general" -> 2 [] adapter = "fallback" -> 3

HasFamily(name) == Contains(Lower(model), name)

GemmaTemplate ==
  /\ StartsWith(prompt, GEMMA_HEAD)
  /\ EndsWith(prompt, GEMMA_TAIL)
  /\ prompt = GEMMA_HEAD \o text \o GEMMA_TAIL

GenericTemplate ==
  /\ StartsWith(prompt, GENERIC_HEAD)
  /\ prompt = GENERIC_HEAD \o text \o GENERIC_TAIL

\* C6 as stated: for every identifier that contains "gemma" in any letter case
\* the prompt is the gemma turn-delimited template; for every identifier that
\* contains none of smollm, gemma, llama, phi it is the generic template.
C6_GemmaAlwaysGemmaTemplate ==
  pc = "prompt_ret" =>
    /\ HasFamily(KW_gemma) => GemmaTemplate
    /\ (\A f \in {KW_smollm, KW_gemma, KW_llama, KW_phi} : ~HasFamily(f)) => GenericTemplate

\* C6 amended: for every identifier that contains "gemma" in any letter case
\* and does not contain "smollm" the prompt is the gemma turn-delimited
\* template; for every identifier that contains none of smollm, gemma, llama,
\* phi it is the generic template.
C6_GemmaUnlessSmollm ==
  pc = "prompt_ret" =>
    /\ (HasFamily(KW_gemma) /\ ~HasFamily(KW_smollm)) => GemmaTemplate
    /\ (\A f \in {KW_smollm, KW_gemma, KW_llama, KW_phi} : ~HasFamily(f)) => GenericTemplate

C6_Witness ==
  /\ pc = "prompt_ret"
  /\ model = TOK_mlx \o TOK_Gemma
  /\ GemmaTemplate

(***************************************************************************)
(* Properties of summarize_with_mlx, checked under SpecMlx.                *)
(***************************************************************************)
\* the end marker of the model's family, <<>> for a family that has none
EndMarker ==
  IF HasFamily(KW_gemma) THEN END_OF_TURN
  ELSE IF HasFamily(KW_llama) THEN EOT_ID
  ELSE <<>>

BeforeFirst(marker) == SubSeq(response, 1, FindFrom(response, marker, 1) - 1)

\* the part of the response between the first "Summary:" and the next one
AfterFirstSummaryMark ==
  LET i == FindFrom(response, SUMMARY_MARK, 1) + Len(SUMMARY_MARK)
      j == FindFrom(response, SUMMARY_MARK, i)
  IN  SubSeq(response, i, IF j = 0 THEN Len(response) ELSE j - 1)

PromptRemoved == Replace(response, prompt, <<>>)

Generated == pc = "mlx_ret" /\ ~calls[1].raised

\* C7 as stated: when the response contains the end marker of the model's
\* family the summary is the part of the response before the first marker,
\* trimmed; when it contains no such marker the summary is the response with
\* the prompt removed, trimmed.
C7_BeforeMarkerElsePromptRemoved ==
  Generated =>
    IF EndMarker # <<>> /\ Contains(response, EndMarker)
    THEN summary = Str(Strip(BeforeFirst(EndMarker)))
    ELSE summary = Str(Strip(PromptRemoved))

\* C7 amended: for a gemma identifier (end marker <end_of_turn>), else a llama
\* identifier (end marker <|eot_id|>): when the response contains the end
\* marker the summary is the part before the first marker, trimmed, and else
\* the response with the prompt removed, trimmed.  For every other identifier:
\* when the response contains "Summary:" the summary is the part after the
\* first "Summary:" up to the next one, trimmed, and else the response with the
\* prompt removed, trimmed.
C7_ExtractionByFamily ==
  Generated =>
    IF EndMarker # <<>>
    THEN IF Contains(response, EndMarker)
         THEN summary = Str(Strip(BeforeFirst(EndMarker)))
         ELSE summary = Str(Strip(PromptRemoved))
    ELSE IF Contains(response, SUMMARY_MARK)
         THEN summary = Str(Strip(AfterFirstSummaryMark))
         ELSE summary = Str(Strip(PromptRemoved))

C7_Witness ==
  /\ Generated
  /\ model = ID_mlx_gemma
  /\ response = prompt \o END_OF_TURN
  /\ summary = Str(Strip(GEMMA_HEAD \o text))

=============================================================================
